---- MODULE Spec2Model ----
(***************************************************************************)
(* Rule-based task prioritization of the task manager: the backend         *)
(* heuristic generateRuleBasedPrioritization behind POST /ai/prioritize,   *)
(* the frontend copy AIService.fallbackPrioritization, and the request     *)
(* path that falls back to them when the remote AI call fails.             *)
(*                                                                         *)
(* Time is counted in ticks; one day is DayTicks ticks, so that the        *)
(* Math.ceil of the day difference is a real rounding.  The random source  *)
(* Math.random() * 20 is counted in steps of 1/RandScale.                  *)
(***************************************************************************)
EXTENDS Integers, Sequences, FiniteSets, TLC

VARIABLES
    now,        \* the clock read by `new Date()` inside the heuristic
    scTask,     \* SpecScore: the task handed to the map callback
    scPc,       \* SpecScore: "input" | "backend" | "frontend"
    scOut,      \* SpecScore: locals and result of the map callback
    dbTasks,    \* backend Task collection of the requesting user
    feTasks,    \* frontend task list (local storage) passed to suggestPrioritization
    bePc,       \* backend handler position
    beTasks,    \* backend handler local `tasks`
    beResp,     \* backend HTTP response
    beScored,   \* argument lists generateRuleBasedPrioritization was invoked with
    aiCalls,    \* number of openai.chat.completions.create calls of the request
    aiReply,    \* outcome of the openai call: "none" before it, else one of AIOutcomes
    dbErrors,   \* number of store queries of the request that threw
    fePc,       \* frontend suggestPrioritization position
    feScored,   \* argument lists fallbackPrioritization was invoked with
    feResult,   \* value the suggestPrioritization promise settles with
    taskDb,     \* the Task collection of all users: document id -> document
    projectDb,  \* the Project collection of all users: document id -> document
    reqs        \* requests and cron jobs in flight: position and locals of each

vars == <<now, scTask, scPc, scOut, dbTasks, feTasks, bePc, beTasks, beResp,
          beScored, aiCalls, aiReply, dbErrors, fePc, feScored, feResult,
          taskDb, projectDb, reqs>>

storeVars == <<taskDb, projectDb, reqs>>

scoreVars == <<scTask, scPc, scOut>>
requestVars == <<dbTasks, feTasks, bePc, beTasks, beResp, beScored, aiCalls, aiReply,
                 dbErrors, fePc, feScored, feResult>>
backendVars == <<bePc, beTasks, beResp, beScored, aiCalls, aiReply, dbErrors>>
frontendVars == <<fePc, feScored, feResult>>

----------------------------------------------------------------------------
(* Bounds of the model *)

DayTicks == 2        \* clock ticks per day (1000 * 60 * 60 * 24 ms in the code)
MaxOverdue == 3      \* earliest due date: MaxOverdue ticks before the clock's origin
MaxDue == 20         \* latest due date: MaxDue ticks after the clock's origin
MaxNow == 1          \* the clock reads 0..MaxNow
MaxDbTasks == 2      \* stored tasks of the requesting user
MaxFeTasks == 2      \* tasks held by the frontend
RandScale == 2       \* resolution of the random source: steps of 1/RandScale
MinuteTicks == 2     \* task store: clock ticks per minute (60000 ms in the code)
MaxClock == 3        \* task store: the clock runs from 0 to MaxClock
MaxUsers == 2        \* task store: users 1..MaxUsers
MaxReqs == 2         \* task store: requests and cron runs of one behaviour
MaxStoreTasks == 2   \* task store: documents of the Task collection under SpecStore

----------------------------------------------------------------------------
(* Data model *)

NoDate == <<>>
DateAt(t) == <<t>>

\* JavaScript truthiness of task.dueDate: null / undefined / '' are falsy
HasDueDate(task) == Len(task.dueDate) > 0
DueTime(task) == task.dueDate[1]

Priorities == {"low", "medium", "high"}
BackendStatuses == {"todo", "in-progress", "completed", "archived"}
FrontendStatuses == {"todo", "in-progress", "completed"}
TimeSpentValues == {0, 120, 121, 150}
DueDates == {NoDate} \cup {DateAt(t) : t \in (0 - MaxOverdue)..MaxDue}

\* Math.random() * 20, in steps of 1/RandScale: 0 <= r < 20
RandomValues == 0..(20 * RandScale - 1)

\* Math.ceil(a / b) for b > 0
Ceil(a, b) == 0 - ((0 - a) \div b)

Min(a, b) == IF a <= b THEN a ELSE b
Max(a, b) == IF a >= b THEN a ELSE b

\* Array.prototype.join(', ')
RECURSIVE Join(_)
Join(strs) ==
    IF Len(strs) = 0 THEN ""
    ELSE IF Len(strs) = 1 THEN strs[1]
    ELSE strs[1] \o ", " \o Join(Tail(strs))

----------------------------------------------------------------------------
(* Backend heuristic: generateRuleBasedPrioritization, the map callback *)

\* const priorityWeights = { high: 30, medium: 15, low: 5 }
priorityWeights(p) ==
    CASE p = "high" -> 30
      [] p = "medium" -> 15
      [] p = "low" -> 5

\* Math.ceil((new Date(task.dueDate) - now) / (1000 * 60 * 60 * 24))
BeDaysUntilDue(task, clock) == Ceil(DueTime(task) - clock, DayTicks)

\* mutation of BeDeadlineRule: three independent ifs instead of an else-if chain
BeDeadlineRuleNoElse(task, clock) ==
    IF HasDueDate(task)
    THEN LET daysUntilDue == BeDaysUntilDue(task, clock)
             a == IF daysUntilDue <= 1
                  THEN [score |-> 40, reasons |-> <<"Due very soon">>]
                  ELSE [score |-> 0, reasons |-> <<>>]
             b == IF daysUntilDue <= 3
                  THEN [score |-> a.score + 25,
                        reasons |-> Append(a.reasons, "Due within 3 days")]
                  ELSE a
         IN IF daysUntilDue <= 7
            THEN [score |-> b.score + 15, reasons |-> Append(b.reasons, "Due this week")]
            ELSE b
    ELSE [score |-> 0, reasons |-> <<>>]

\* mutation of BeDeadlineRule: the weights of the 3-day and the week branch swapped
BeDeadlineRuleSwapped(task, clock) ==
    IF HasDueDate(task)
    THEN LET daysUntilDue == BeDaysUntilDue(task, clock) IN
         IF daysUntilDue <= 1
         THEN [score |-> 40, reasons |-> <<"Due very soon">>]
         ELSE IF daysUntilDue <= 3
         THEN [score |-> 15, reasons |-> <<"Due within 3 days">>]
         ELSE IF daysUntilDue <= 7
         THEN [score |-> 25, reasons |-> <<"Due this week">>]
         ELSE [score |-> 0, reasons |-> <<>>]
    ELSE [score |-> 0, reasons |-> <<>>]

\* mutation of BeDeadlineRule: daysUntilDue < 1 instead of <= 1
BeDeadlineRuleStrictDay(task, clock) ==
    IF HasDueDate(task)
    THEN LET daysUntilDue == BeDaysUntilDue(task, clock) IN
         IF daysUntilDue < 1
         THEN [score |-> 40, reasons |-> <<"Due very soon">>]
         ELSE IF daysUntilDue <= 3
         THEN [score |-> 25, reasons |-> <<"Due within 3 days">>]
         ELSE IF daysUntilDue <= 7
         THEN [score |-> 15, reasons |-> <<"Due this week">>]
         ELSE [score |-> 0, reasons |-> <<>>]
    ELSE [score |-> 0, reasons |-> <<>>]

\* the "Deadline urgency" block: score and reasons after it
BeDeadlineRule(task, clock) ==
    IF HasDueDate(task)
    THEN LET daysUntilDue == BeDaysUntilDue(task, clock) IN
         IF daysUntilDue <= 1
         THEN [score |-> 40, reasons |-> <<"Due very soon">>]
         ELSE IF daysUntilDue <= 3
         THEN [score |-> 25, reasons |-> <<"Due within 3 days">>]
         ELSE IF daysUntilDue <= 7
         THEN [score |-> 15, reasons |-> <<"Due this week">>]
         ELSE [score |-> 0, reasons |-> <<>>]
    ELSE [score |-> 0, reasons |-> <<>>]

\* mutation of BePriorityRule: the priority rule pushes a reason too
BePriorityRuleWithReason(task, acc) ==
    [score |-> acc.score + priorityWeights(task.priority),
     reasons |-> Append(acc.reasons, "Priority weight")]

\* score += priorityWeights[task.priority]
BePriorityRule(task, acc) ==
    [acc EXCEPT !.score = @ + priorityWeights(task.priority)]

\* mutation of BeTimeRule: timeSpent >= 120 instead of > 120
BeTimeRuleInclusive(task, acc) ==
    IF task.timeSpent >= 120
    THEN [score |-> acc.score + 20,
          reasons |-> Append(acc.reasons, "Significant time invested")]
    ELSE acc

\* if (task.timeSpent > 120) { score += 20; reasons.push(...) }
BeTimeRule(task, acc) ==
    IF task.timeSpent > 120
    THEN [score |-> acc.score + 20,
          reasons |-> Append(acc.reasons, "Significant time invested")]
    ELSE acc

\* if (task.status === 'in-progress') { score += 15; reasons.push(...) }
BeStatusRule(task, acc) ==
    IF task.status = "in-progress"
    THEN [score |-> acc.score + 15,
          reasons |-> Append(acc.reasons, "Currently in progress")]
    ELSE acc

\* mutation of BeLabel: score > 60 instead of >= 60
BeLabelStrict(score) ==
    IF score > 60 THEN "high"
    ELSE IF score >= 30 THEN "medium"
    ELSE "low"

\* mutation of BeLabel: score > 30 instead of >= 30
BeLabelMediumStrict(score) ==
    IF score >= 60 THEN "high"
    ELSE IF score > 30 THEN "medium"
    ELSE "low"

\* suggestedPriority from the final score
BeLabel(score) ==
    IF score >= 60 THEN "high"
    ELSE IF score >= 30 THEN "medium"
    ELSE "low"

\* mutation of BeReason: the `|| default` dropped
BeReasonNoDefault(reasons) == Join(reasons)

\* reasons.join(', ') || 'Based on current workload analysis'
BeReason(reasons) ==
    LET joined == Join(reasons) IN
    IF joined = "" THEN "Based on current workload analysis" ELSE joined

\* mutation of BeConfidence: the Math.max(60, ...) dropped
BeConfidenceNoFloor(score, rnd) == Min(95 * RandScale, score * RandScale + rnd)

\* Math.min(95, Math.max(60, score + Math.random() * 20)), in 1/RandScale
BeConfidence(score, rnd) ==
    Min(95 * RandScale, Max(60 * RandScale, score * RandScale + rnd))

\* the locals of one run of the map callback
BeScoreTask(task, clock) ==
    LET deadline == BeDeadlineRule(task, clock)
        afterPriority == BePriorityRule(task, deadline)
        afterTime == BeTimeRule(task, afterPriority)
        afterStatus == BeStatusRule(task, afterTime)
    IN [deadline |-> deadline, score |-> afterStatus.score,
        reasons |-> afterStatus.reasons]

\* mutation of BeSuggestion: the label is taken from the jittered score
BeSuggestionJittered(task, clock, rnd) ==
    LET locals == BeScoreTask(task, clock) IN
    [taskId |-> task.id,
     suggestedPriority |-> BeLabel(locals.score + (rnd \div RandScale)),
     reason |-> BeReason(locals.reasons),
     confidence |-> BeConfidence(locals.score, rnd)]

\* the object returned by the map callback
BeSuggestion(task, clock, rnd) ==
    LET locals == BeScoreTask(task, clock) IN
    [taskId |-> task.id,
     suggestedPriority |-> BeLabel(locals.score),
     reason |-> BeReason(locals.reasons),
     confidence |-> BeConfidence(locals.score, rnd)]

----------------------------------------------------------------------------
(* Frontend heuristic: services/aiService.ts fallbackPrioritization *)

\* const priorityWeights = { high: 30, medium: 15, low: 5 }
fePriorityWeights(p) ==
    CASE p = "high" -> 30
      [] p = "medium" -> 15
      [] p = "low" -> 5

\* Math.ceil((new Date(task.dueDate).getTime() - now.getTime()) / (1000*60*60*24))
FeDaysUntilDue(task, clock) == Ceil(DueTime(task) - clock, DayTicks)

FeDeadlineRule(task, clock) ==
    IF HasDueDate(task)
    THEN LET daysUntilDue == FeDaysUntilDue(task, clock) IN
         IF daysUntilDue <= 1
         THEN [score |-> 40, reasons |-> <<"Due very soon">>]
         ELSE IF daysUntilDue <= 3
         THEN [score |-> 25, reasons |-> <<"Due within 3 days">>]
         ELSE IF daysUntilDue <= 7
         THEN [score |-> 15, reasons |-> <<"Due this week">>]
         ELSE [score |-> 0, reasons |-> <<>>]
    ELSE [score |-> 0, reasons |-> <<>>]

FePriorityRule(task, acc) ==
    [acc EXCEPT !.score = @ + fePriorityWeights(task.priority)]

\* mutation of FeTimeRule: timeSpent >= 120 instead of > 120
FeTimeRuleInclusive(task, acc) ==
    IF task.timeSpent >= 120
    THEN [score |-> acc.score + 20,
          reasons |-> Append(acc.reasons, "Significant time invested")]
    ELSE acc

FeTimeRule(task, acc) ==
    IF task.timeSpent > 120
    THEN [score |-> acc.score + 20,
          reasons |-> Append(acc.reasons, "Significant time invested")]
    ELSE acc

FeStatusRule(task, acc) ==
    IF task.status = "in-progress"
    THEN [score |-> acc.score + 15,
          reasons |-> Append(acc.reasons, "Currently in progress")]
    ELSE acc

FeLabel(score) ==
    IF score >= 60 THEN "high"
    ELSE IF score >= 30 THEN "medium"
    ELSE "low"

FeReason(reasons) ==
    LET joined == Join(reasons) IN
    IF joined = "" THEN "Based on current workload analysis" ELSE joined

FeConfidence(score, rnd) ==
    Min(95 * RandScale, Max(60 * RandScale, score * RandScale + rnd))

FeScoreTask(task, clock) ==
    LET deadline == FeDeadlineRule(task, clock)
        afterPriority == FePriorityRule(task, deadline)
        afterTime == FeTimeRule(task, afterPriority)
        afterStatus == FeStatusRule(task, afterTime)
    IN [deadline |-> deadline, score |-> afterStatus.score,
        reasons |-> afterStatus.reasons]

FeSuggestion(task, clock, rnd) ==
    LET locals == FeScoreTask(task, clock) IN
    [taskId |-> task.id,
     suggestedPriority |-> FeLabel(locals.score),
     reason |-> FeReason(locals.reasons),
     confidence |-> FeConfidence(locals.score, rnd)]

----------------------------------------------------------------------------
(* Weekly analytics cron job: the body of `for (const task of activeTasks)` *)

\* if (task.dueDate) { ... if / else if / else if on daysUntilDue }
CronDeadlineRule(task, clock) ==
    IF HasDueDate(task)
    THEN LET daysUntilDue == Ceil(DueTime(task) - clock, DayTicks) IN
         IF daysUntilDue <= 1 THEN 40
         ELSE IF daysUntilDue <= 3 THEN 25
         ELSE IF daysUntilDue <= 7 THEN 15
         ELSE 0
    ELSE 0

\* if high += 30; else if medium += 15; else += 5
CronPriorityRule(task, priorityScore) ==
    IF task.priority = "high" THEN priorityScore + 30
    ELSE IF task.priority = "medium" THEN priorityScore + 15
    ELSE priorityScore + 5

\* if (task.timeSpent > 120) priorityScore += 20
CronTimeRule(task, priorityScore) ==
    IF task.timeSpent > 120 THEN priorityScore + 20 ELSE priorityScore

\* if (task.status === 'in-progress') priorityScore += 15
CronStatusRule(task, priorityScore) ==
    IF task.status = "in-progress" THEN priorityScore + 15 ELSE priorityScore

\* the value written to 'aiInsights.priorityScore'
CronPriorityScore(task, clock) ==
    CronStatusRule(task,
        CronTimeRule(task,
            CronPriorityRule(task, CronDeadlineRule(task, clock))))

\* Task.find({ status: { $in: ['todo', 'in-progress'] }, ... })
CronStatuses == {"todo", "in-progress"}

----------------------------------------------------------------------------
(* The whole heuristic over a task list *)

StaticInsight == "Prioritization based on deadlines, time investment, and current status"
OverdueInsight == "You have overdue tasks that need immediate attention"
NoOverdueInsight == "No overdue tasks - good job staying on track!"
EmptyInsight == "No active tasks found to prioritize."

\* tasks.filter(t => t.dueDate && new Date(t.dueDate) < now).length > 0
BeHasOverdue(tasks, clock) ==
    \E i \in 1..Len(tasks) : HasDueDate(tasks[i]) /\ DueTime(tasks[i]) < clock

\* mutation of generateRuleBasedPrioritization: the last task is not mapped
generateRuleBasedPrioritizationDropLast(tasks, clock, rnds) ==
    [suggestions |-> [i \in 1..(Len(tasks) - 1) |->
                         BeSuggestion(tasks[i], clock, rnds[i])],
     insights |-> <<StaticInsight,
                    IF BeHasOverdue(tasks, clock) THEN OverdueInsight
                    ELSE NoOverdueInsight>>]

\* generateRuleBasedPrioritization(tasks); rnds[i] is the i-th Math.random()
generateRuleBasedPrioritization(tasks, clock, rnds) ==
    [suggestions |-> [i \in 1..Len(tasks) |-> BeSuggestion(tasks[i], clock, rnds[i])],
     insights |-> <<StaticInsight,
                    IF BeHasOverdue(tasks, clock) THEN OverdueInsight
                    ELSE NoOverdueInsight>>]

FeHasOverdue(tasks, clock) ==
    \E i \in 1..Len(tasks) : HasDueDate(tasks[i]) /\ DueTime(tasks[i]) < clock

FeRecommendations ==
    <<"Focus on high-priority items first",
      "Break large tasks into smaller, manageable chunks",
      "Use time-blocking to allocate focused work periods",
      "Review and adjust priorities weekly">>

\* AIService.fallbackPrioritization(tasks, projects)
fallbackPrioritization(tasks, clock, rnds) ==
    [suggestions |-> [i \in 1..Len(tasks) |-> FeSuggestion(tasks[i], clock, rnds[i])],
     insights |-> <<StaticInsight,
                    IF FeHasOverdue(tasks, clock) THEN OverdueInsight
                    ELSE NoOverdueInsight>>,
     recommendations |-> FeRecommendations]

----------------------------------------------------------------------------
(* SpecScore: the map callback applied to one task *)

AllTasks ==
    [id : {1}, dueDate : DueDates, priority : Priorities,
     timeSpent : TimeSpentValues, status : BackendStatuses]

NoResponse == [status |-> 0, body |-> [type |-> "none", obj |-> <<>>]]
NoResult == [suggestions |-> <<>>, insights |-> <<>>, recommendations |-> <<>>]

NoOut == [deadline |-> [score |-> 0, reasons |-> <<>>], score |-> 0, reasons |-> <<>>,
          rnd |-> 0,
          suggestion |-> [taskId |-> 0, suggestedPriority |-> "", reason |-> "",
                          confidence |-> 0]]

\* no store, no request: the task and project collections play no part
StoreIdle ==
    /\ taskDb = <<>>
    /\ projectDb = <<>>
    /\ reqs = <<>>

RequestIdle ==
    /\ dbTasks = <<>>
    /\ feTasks = <<>>
    /\ bePc = "idle"
    /\ beTasks = <<>>
    /\ beResp = NoResponse
    /\ beScored = <<>>
    /\ aiCalls = 0
    /\ aiReply = "none"
    /\ dbErrors = 0
    /\ fePc = "idle"
    /\ feScored = <<>>
    /\ feResult = NoResult

ScoreInit ==
    /\ now \in 0..MaxNow
    /\ scTask \in AllTasks
    /\ scPc = "input"
    /\ scOut = NoOut
    /\ RequestIdle
    /\ StoreIdle

\* backend: tasks.map(task => { ... }) on one element
ScoreBackend ==
    /\ scPc = "input"
    /\ \E rnd \in RandomValues :
         scOut' = [deadline |-> BeScoreTask(scTask, now).deadline,
                   score |-> BeScoreTask(scTask, now).score,
                   reasons |-> BeScoreTask(scTask, now).reasons,
                   rnd |-> rnd,
                   suggestion |-> BeSuggestion(scTask, now, rnd)]
    /\ scPc' = "backend"
    /\ UNCHANGED <<now, scTask, requestVars, storeVars>>

\* frontend: tasks.map(task => { ... }) on one element
ScoreFrontend ==
    /\ scPc = "input"
    /\ scTask.status \in FrontendStatuses
    /\ \E rnd \in RandomValues :
         scOut' = [deadline |-> FeScoreTask(scTask, now).deadline,
                   score |-> FeScoreTask(scTask, now).score,
                   reasons |-> FeScoreTask(scTask, now).reasons,
                   rnd |-> rnd,
                   suggestion |-> FeSuggestion(scTask, now, rnd)]
    /\ scPc' = "frontend"
    /\ UNCHANGED <<now, scTask, requestVars, storeVars>>

\* weekly job: one task selected by the query is scored and the score stored;
\* scOut.score holds the stored aiInsights.priorityScore
ScoreCron ==
    /\ scPc = "input"
    /\ scTask.status \in CronStatuses
    /\ scOut' = [scOut EXCEPT !.score = CronPriorityScore(scTask, now)]
    /\ scPc' = "cron"
    /\ UNCHANGED <<now, scTask, requestVars, storeVars>>

ScoreNext == ScoreBackend \/ ScoreFrontend \/ ScoreCron

SpecScore == ScoreInit /\ [][ScoreNext]_vars

----------------------------------------------------------------------------
(* Spec: one prioritization request, frontend suggestPrioritization calling *)
(* backend POST /ai/prioritize                                              *)

\* task shapes stored by the backend and held by the frontend; the request
\* is made when the clock reads 0
SampleTasks ==
    { [dueDate |-> NoDate, priority |-> "low", timeSpent |-> 0, status |-> "todo"],
      [dueDate |-> DateAt(0 - 1), priority |-> "high", timeSpent |-> 150,
       status |-> "todo"],
      [dueDate |-> DateAt(0 - 1), priority |-> "medium", timeSpent |-> 150,
       status |-> "completed"],
      [dueDate |-> DateAt(0), priority |-> "medium", timeSpent |-> 150,
       status |-> "in-progress"] }

\* a stored list: the i-th task has id i
WithIds(shapes) ==
    [i \in 1..Len(shapes) |->
        [id |-> i, dueDate |-> shapes[i].dueDate, priority |-> shapes[i].priority,
         timeSpent |-> shapes[i].timeSpent, status |-> shapes[i].status]]

TaskLists(maxLen) ==
    UNION {{WithIds(shapes) : shapes \in [1..n -> SampleTasks]} : n \in 0..maxLen}

\* the values Math.random() * 20 returns during one map over n tasks
RandomDraws(n) ==
    {[i \in 1..n |-> 0], [i \in 1..n |-> 20 * RandScale - i]}

\* JSON values
JObject(rec) == [type |-> "object", obj |-> rec]
JString == [type |-> "string", obj |-> <<>>]
JNull == [type |-> "null", obj |-> <<>>]

\* a field value that is not an array (a string, a number, an object): it is
\* kept at index 0, which no array has (arrays are indexed from 1)
JScalar(v) == [i \in {0} |-> v]

\* Array.isArray(v)
IsArray(v) == 0 \notin DOMAIN v

\* data.key || [] on a parsed response body
FieldOrEmpty(data, key) ==
    IF data.type = "object" /\ key \in DOMAIN data.obj THEN data.obj[key] ELSE <<>>

\* a reply of the remote model that has the requested shape
AIEnvelope ==
    [suggestions |-> <<[taskId |-> 1, suggestedPriority |-> "high",
                        reason |-> "Deadline is close", confidence |-> 90 * RandScale]>>,
     insights |-> <<"You have a balanced workload">>,
     recommendations |-> <<"Start with the most urgent task">>]

\* outcomes of openai.chat.completions.create and of its message content
AIOutcomes ==
    {"throws", "envelope", "noSuggestions", "wrongTypes", "string", "null", "notJSON"}

\* JSON.parse(completion.choices[0].message.content) succeeds
ContentParses(outcome) ==
    outcome \in {"envelope", "noSuggestions", "wrongTypes", "string", "null"}

\* the value JSON.parse returns
ParsedContent(outcome) ==
    CASE outcome = "envelope" -> JObject(AIEnvelope)
      [] outcome = "noSuggestions" -> JObject([summary |-> "All good"])
      [] outcome = "wrongTypes" ->
            JObject([suggestions |-> JScalar("No changes needed"),
                     insights |-> <<"You have a balanced workload">>])
      [] outcome = "string" -> JString
      [] outcome = "null" -> JNull

\* Task.find({ userId: req.userId, status: { $ne: 'completed' } })
FindActiveTasks(tasks) == SelectSeq(tasks, LAMBDA t : t.status # "completed")

Init ==
    /\ now = 0
    /\ scTask = [id |-> 1, dueDate |-> NoDate, priority |-> "medium", timeSpent |-> 0,
                 status |-> "todo"]
    /\ scPc = "off"
    /\ scOut = NoOut
    /\ dbTasks \in TaskLists(MaxDbTasks)
    /\ feTasks \in TaskLists(MaxFeTasks)
    /\ bePc = "idle"
    /\ beTasks = <<>>
    /\ beResp = NoResponse
    /\ beScored = <<>>
    /\ aiCalls = 0
    /\ aiReply = "none"
    /\ dbErrors = 0
    /\ fePc = "idle"
    /\ feScored = <<>>
    /\ feResult = NoResult
    /\ StoreIdle

\* suggestPrioritization: makeRequest('/ai/prioritize') reaches the backend
FeSend ==
    /\ fePc = "idle"
    /\ bePc = "idle"
    /\ fePc' = "awaiting"
    /\ bePc' = "findTasks"
    /\ UNCHANGED <<storeVars, now, scoreVars, dbTasks, feTasks, beTasks, beResp, beScored,
                   aiCalls, aiReply, dbErrors, feScored, feResult>>

\* the catch block of suggestPrioritization
FeFallback ==
    /\ \E rnds \in RandomDraws(Len(feTasks)) :
           feResult' = fallbackPrioritization(feTasks, now, rnds)
    /\ feScored' = Append(feScored, feTasks)
    /\ fePc' = "done"

\* fetch rejects (network error): the catch block runs
FeFetchFails ==
    /\ fePc = "awaiting"
    /\ FeFallback
    /\ UNCHANGED <<storeVars, now, scoreVars, dbTasks, feTasks, backendVars>>

\* the response arrives: !response.ok throws, else the body is read with defaults
FeReceive ==
    /\ fePc = "awaiting"
    /\ bePc = "responded"
    /\ IF beResp.status \in 200..299 /\ beResp.body.type # "null"
       THEN /\ feResult' = [suggestions |-> FieldOrEmpty(beResp.body, "suggestions"),
                            insights |-> FieldOrEmpty(beResp.body, "insights"),
                            recommendations |->
                                FieldOrEmpty(beResp.body, "recommendations")]
            /\ fePc' = "done"
            /\ UNCHANGED feScored
       ELSE FeFallback
    /\ UNCHANGED <<storeVars, now, scoreVars, dbTasks, feTasks, backendVars>>

\* POST /prioritize: await Task.find(...) of the try block
BeFindTasks ==
    /\ bePc = "findTasks"
    /\ \E dbOk \in BOOLEAN :
         IF dbOk
         THEN /\ beTasks' = FindActiveTasks(dbTasks)
              /\ bePc' = "findProjects"
              /\ UNCHANGED dbErrors
         ELSE /\ bePc' = "catch"
              /\ dbErrors' = dbErrors + 1
              /\ UNCHANGED beTasks
    /\ UNCHANGED <<storeVars, now, scoreVars, dbTasks, feTasks, beResp, beScored, aiCalls,
                   aiReply, frontendVars>>

\* await Project.find(...), then the empty-list short-circuit
BeFindProjects ==
    /\ bePc = "findProjects"
    /\ \E dbOk \in BOOLEAN :
         IF ~dbOk
         THEN /\ bePc' = "catch"
              /\ dbErrors' = dbErrors + 1
              /\ UNCHANGED beResp
         ELSE IF Len(beTasks) = 0
         THEN /\ beResp' = [status |-> 200,
                            body |-> JObject([suggestions |-> <<>>,
                                              insights |-> <<EmptyInsight>>])]
              /\ bePc' = "responded"
              /\ UNCHANGED dbErrors
         ELSE /\ bePc' = "callAI"
              /\ UNCHANGED <<beResp, dbErrors>>
    /\ UNCHANGED <<storeVars, now, scoreVars, dbTasks, feTasks, beTasks, beScored, aiCalls,
                   aiReply, frontendVars>>

\* await openai.chat.completions.create(...), JSON.parse with its own catch,
\* res.json(aiResponse)
BeCallAI ==
    /\ bePc = "callAI"
    /\ aiCalls' = aiCalls + 1
    /\ \E outcome \in AIOutcomes :
         /\ aiReply' = outcome
         /\ IF outcome = "throws"
            THEN /\ bePc' = "catch"
                 /\ UNCHANGED <<beResp, beScored>>
            ELSE IF ContentParses(outcome)
            THEN /\ beResp' = [status |-> 200, body |-> ParsedContent(outcome)]
                 /\ bePc' = "responded"
                 /\ UNCHANGED beScored
            ELSE /\ \E rnds \in RandomDraws(Len(beTasks)) :
                       beResp' = [status |-> 200,
                                  body |-> JObject(generateRuleBasedPrioritization(
                                                       beTasks, now, rnds))]
                 /\ beScored' = Append(beScored, beTasks)
                 /\ bePc' = "responded"
    /\ UNCHANGED <<storeVars, now, scoreVars, dbTasks, feTasks, beTasks, dbErrors, frontendVars>>

\* mutation of BeCatch: after a failed remote call the catch tries it once more
BeCatchRetry ==
    /\ bePc = "catch"
    /\ IF aiReply = "throws" /\ aiCalls < 2
       THEN /\ bePc' = "callAI"
            /\ UNCHANGED <<beResp, beScored, dbErrors>>
       ELSE /\ \E dbOk \in BOOLEAN :
                 IF dbOk
                 THEN LET tasks == FindActiveTasks(dbTasks) IN
                      /\ \E rnds \in RandomDraws(Len(tasks)) :
                            beResp' = [status |-> 200,
                                       body |-> JObject(generateRuleBasedPrioritization(
                                                            tasks, now, rnds))]
                      /\ beScored' = Append(beScored, tasks)
                      /\ UNCHANGED dbErrors
                 ELSE /\ dbErrors' = dbErrors + 1
                      /\ beResp' = [status |-> 500,
                                    body |-> JObject([message |->
                                                "Server error generating prioritization"])]
                      /\ UNCHANGED beScored
            /\ bePc' = "responded"
    /\ UNCHANGED <<storeVars, now, scoreVars, dbTasks, feTasks, beTasks, aiCalls, aiReply,
                   frontendVars>>

\* mutation of BeCatch: the catch answers 500 without trying the heuristic
BeCatchNoFallback ==
    /\ bePc = "catch"
    /\ beResp' = [status |-> 500,
                  body |-> JObject([message |->
                              "Server error generating prioritization"])]
    /\ bePc' = "responded"
    /\ UNCHANGED <<storeVars, now, scoreVars, dbTasks, feTasks, beTasks, beScored, aiCalls,
                   aiReply, dbErrors, frontendVars>>

\* the outer catch: Task.find again, generateRuleBasedPrioritization, or 500
BeCatch ==
    /\ bePc = "catch"
    /\ \E dbOk \in BOOLEAN :
         IF dbOk
         THEN LET tasks == FindActiveTasks(dbTasks) IN
              /\ \E rnds \in RandomDraws(Len(tasks)) :
                    beResp' = [status |-> 200,
                               body |-> JObject(generateRuleBasedPrioritization(
                                                    tasks, now, rnds))]
              /\ beScored' = Append(beScored, tasks)
              /\ UNCHANGED dbErrors
         ELSE /\ dbErrors' = dbErrors + 1
              /\ beResp' = [status |-> 500,
                            body |-> JObject([message |->
                                        "Server error generating prioritization"])]
              /\ UNCHANGED beScored
    /\ bePc' = "responded"
    /\ UNCHANGED <<storeVars, now, scoreVars, dbTasks, feTasks, beTasks, aiCalls, aiReply,
                   frontendVars>>

Next ==
    \/ FeSend
    \/ FeFetchFails
    \/ FeReceive
    \/ BeFindTasks
    \/ BeFindProjects
    \/ BeCallAI
    \/ BeCatch

Spec == Init /\ [][Next]_vars

----------------------------------------------------------------------------
(* SpecEndpoints: one request to any of the backend AI endpoints,          *)
(* POST /prioritize (the actions above), POST /daily-review and            *)
(* POST /suggest-tasks                                                     *)

\* res.status(500).json({ message })
ServerError(message) == [status |-> 500, body |-> JObject([message |-> message])]

\* tasks.filter(t => t.status === 'completed')
CompletedOf(tasks) == SelectSeq(tasks, LAMBDA t : t.status = "completed")

\* tasks.reduce((acc, task) => acc + task.timeSpent, 0)
RECURSIVE SumTimeSpent(_)
SumTimeSpent(tasks) ==
    IF Len(tasks) = 0 THEN 0
    ELSE Head(tasks).timeSpent + SumTimeSpent(Tail(tasks))

\* const reviewData = { ... }; a task's id stands for its title
ReviewData(tasks, allTasks, today) ==
    LET completedToday == CompletedOf(tasks) IN
    [tasksWorkedOn |-> Len(tasks),
     tasksCompleted |-> Len(completedToday),
     totalFocusTime |-> SumTimeSpent(tasks),
     completedTasks |-> [i \in 1..Len(completedToday) |->
                            [title |-> completedToday[i].id,
                             timeSpent |-> completedToday[i].timeSpent]],
     pendingHighPriority |->
         Len(SelectSeq(allTasks,
                       LAMBDA t : t.priority = "high" /\ t.status # "completed")),
     overdueCount |->
         Len(SelectSeq(allTasks,
                       LAMBDA t : HasDueDate(t) /\ DueTime(t) < today
                                    /\ t.status # "completed"))]

\* generateRuleBasedDailyReview(data)
generateRuleBasedDailyReview(data) ==
    [summary |-> "Today you worked on " \o ToString(data.tasksWorkedOn)
                    \o " tasks and completed " \o ToString(data.tasksCompleted)
                    \o ". You spent " \o ToString(data.totalFocusTime \div 60)
                    \o " hours in focused work.",
     achievements |-> [i \in 1..Min(3, Len(data.completedTasks)) |->
                          "Completed " \o ToString(data.completedTasks[i].title)],
     recommendations |->
         <<IF data.totalFocusTime > 300 THEN "Great focus time today!"
           ELSE "Consider longer focus sessions tomorrow",
           IF data.tasksCompleted > 3 THEN "Excellent task completion rate!"
           ELSE "Try breaking larger tasks into smaller chunks">>,
     tomorrowFocus |-> <<"Focus on high-priority items", "Review overdue tasks",
                         "Plan your most important work">>,
     motivationalNote |-> "Every step forward is progress. Keep up the great work!"]

\* replies of the remote model that have the requested shape
AIReview ==
    [summary |-> "A productive day", achievements |-> <<"Closed one task">>,
     recommendations |-> <<"Plan tomorrow tonight">>,
     tomorrowFocus |-> <<"The overdue task">>, motivationalNote |-> "Well done"]

AITaskSuggestions ==
    [suggestions |-> <<[title |-> "Write tests", description |-> "Cover the routes",
                        priority |-> "medium", estimatedTime |-> 60]>>]

\* outcomes of the completion call of /daily-review and of /suggest-tasks
DrOutcomes == {"throws", "review", "notJSON"}
StOutcomes == {"throws", "taskSuggestions", "notJSON"}

\* a POST /daily-review request arrives
DrReceive ==
    /\ bePc = "idle"
    /\ fePc = "idle"
    /\ bePc' = "drFind"
    /\ UNCHANGED <<storeVars, now, scoreVars, dbTasks, feTasks, beTasks, beResp, beScored,
                   aiCalls, aiReply, dbErrors, frontendVars>>

\* the three queries of /daily-review; the tasks updated today are some of the
\* user's tasks (a prefix of the stored list)
DrFind ==
    /\ bePc = "drFind"
    /\ \E dbOk \in BOOLEAN :
         IF dbOk
         THEN /\ \E n \in 0..Len(dbTasks) : beTasks' = SubSeq(dbTasks, 1, n)
              /\ bePc' = "drCallAI"
              /\ UNCHANGED <<beResp, dbErrors>>
         ELSE /\ dbErrors' = dbErrors + 1
              /\ beResp' = ServerError("Server error generating daily review")
              /\ bePc' = "drResponded"
              /\ UNCHANGED beTasks
    /\ UNCHANGED <<storeVars, now, scoreVars, dbTasks, feTasks, beScored, aiCalls, aiReply,
                   frontendVars>>

\* /daily-review: the completion call, JSON.parse with its own catch,
\* res.json(aiResponse); a rejected call goes to the handler's catch
DrCallAI ==
    /\ bePc = "drCallAI"
    /\ aiCalls' = aiCalls + 1
    /\ \E outcome \in DrOutcomes :
         /\ aiReply' = outcome
         /\ beResp' =
              CASE outcome = "throws" ->
                       ServerError("Server error generating daily review")
                [] outcome = "review" -> [status |-> 200, body |-> JObject(AIReview)]
                [] outcome = "notJSON" ->
                       [status |-> 200,
                        body |-> JObject(generateRuleBasedDailyReview(
                                             ReviewData(beTasks, dbTasks, now)))]
    /\ bePc' = "drResponded"
    /\ UNCHANGED <<storeVars, now, scoreVars, dbTasks, feTasks, beTasks, beScored, dbErrors,
                   frontendVars>>

\* a POST /suggest-tasks request arrives
StReceive ==
    /\ bePc = "idle"
    /\ fePc = "idle"
    /\ bePc' = "stProject"
    /\ UNCHANGED <<storeVars, now, scoreVars, dbTasks, feTasks, beTasks, beResp, beScored,
                   aiCalls, aiReply, dbErrors, frontendVars>>

\* await Project.findOne(...); if (!project) return res.status(404)
StFindProject ==
    /\ bePc = "stProject"
    /\ \E found \in {"project", "none", "error"} :
         CASE found = "project" ->
                  /\ bePc' = "stFindTasks"
                  /\ UNCHANGED <<beResp, dbErrors>>
           [] found = "none" ->
                  /\ beResp' = [status |-> 404,
                                body |-> JObject([message |-> "Project not found"])]
                  /\ bePc' = "stResponded"
                  /\ UNCHANGED dbErrors
           [] found = "error" ->
                  /\ dbErrors' = dbErrors + 1
                  /\ beResp' = ServerError("Server error generating task suggestions")
                  /\ bePc' = "stResponded"
    /\ UNCHANGED <<storeVars, now, scoreVars, dbTasks, feTasks, beTasks, beScored, aiCalls,
                   aiReply, frontendVars>>

\* await Task.find({ projectId, userId }); the project's tasks are some of the
\* user's tasks (a prefix of the stored list)
StFindTasks ==
    /\ bePc = "stFindTasks"
    /\ \E dbOk \in BOOLEAN :
         IF dbOk
         THEN /\ \E n \in 0..Len(dbTasks) : beTasks' = SubSeq(dbTasks, 1, n)
              /\ bePc' = "stCallAI"
              /\ UNCHANGED <<beResp, dbErrors>>
         ELSE /\ dbErrors' = dbErrors + 1
              /\ beResp' = ServerError("Server error generating task suggestions")
              /\ bePc' = "stResponded"
              /\ UNCHANGED beTasks
    /\ UNCHANGED <<storeVars, now, scoreVars, dbTasks, feTasks, beScored, aiCalls, aiReply,
                   frontendVars>>

\* /suggest-tasks: the completion call and JSON.parse, both inside the
\* handler's try: a rejected call and an unparsable content go to its catch
StCallAI ==
    /\ bePc = "stCallAI"
    /\ aiCalls' = aiCalls + 1
    /\ \E outcome \in StOutcomes :
         /\ aiReply' = outcome
         /\ beResp' =
              IF outcome = "taskSuggestions"
              THEN [status |-> 200, body |-> JObject(AITaskSuggestions)]
              ELSE ServerError("Server error generating task suggestions")
    /\ bePc' = "stResponded"
    /\ UNCHANGED <<storeVars, now, scoreVars, dbTasks, feTasks, beTasks, beScored, dbErrors,
                   frontendVars>>

EndpointsNext ==
    \/ Next
    \/ DrReceive
    \/ DrFind
    \/ DrCallAI
    \/ StReceive
    \/ StFindProject
    \/ StFindTasks
    \/ StCallAI

SpecEndpoints == Init /\ [][EndpointsNext]_vars

----------------------------------------------------------------------------
(* The task store: the Task and Project collections and the routes and    *)
(* cron jobs that write them.  Every await of a handler is a step of its   *)
(* own, so that requests interleave between their database operations.     *)
(* Here the clock counts MinuteTicks ticks per minute.                     *)

Users == 1..MaxUsers
ReqIds == 1..MaxReqs

\* a Task document with the schema defaults
TaskDoc(user, project) ==
    [exists |-> TRUE, userId |-> user, projectId |-> project, status |-> "todo",
     completedAt |-> NoDate, archivedAt |-> NoDate, isTimerRunning |-> FALSE,
     timerStartTime |-> NoDate, timeSpent |-> 0, timerSessions |-> <<>>]

\* a Project document
ProjectDoc(user) == [exists |-> TRUE, userId |-> user]

NoDoc == [TaskDoc(0, 0) EXCEPT !.exists = FALSE]

\* a request slot that has not been used
IdleReq ==
    [kind |-> "none", pc |-> "idle", user |-> 0, task |-> 0, snap |-> NoDoc,
     at |-> 0, elapsed |-> 0, modified |-> {}, queue |-> <<>>, status |-> 0]

\* slot r takes the next request: slots are used in order, as they differ in
\* nothing but their number
FreeSlot(r) ==
    /\ reqs[r].pc = "idle"
    /\ \A q \in 1..(r - 1) : reqs[q].pc # "idle"

\* a request that has answered: its locals are gone
Finished(req, status) ==
    [IdleReq EXCEPT !.kind = req.kind, !.pc = "done", !.status = status]

\* Task.find / findOne / updateMany filters
OwnedBy(db, id, user) ==
    id \in DOMAIN db /\ db[id].exists /\ db[id].userId = user

RunningTimersOf(db, user) ==
    {i \in DOMAIN db : db[i].exists /\ db[i].userId = user /\ db[i].isTimerRunning}

\* ids a request may name: every document id and one id that names nothing
RequestIds(db) == 1..(Len(db) + 1)

\* mutation of ElapsedMinutes: Math.ceil instead of Math.floor
ElapsedMinutesCeil(doc, clock) == Ceil(clock - doc.timerStartTime[1], MinuteTicks)

\* Math.floor((Date.now() - timerStartTime.getTime()) / 60000)
ElapsedMinutes(doc, clock) == (clock - doc.timerStartTime[1]) \div MinuteTicks

\* updateMany({ userId, isTimerRunning: true },
\*            { $set: { isTimerRunning: false }, $unset: { timerStartTime: 1 } })
StopAllTimers(db, user) ==
    [i \in DOMAIN db |->
        IF i \in RunningTimersOf(db, user)
        THEN [db[i] EXCEPT !.isTimerRunning = FALSE, !.timerStartTime = NoDate]
        ELSE db[i]]

\* findOneAndUpdate({ _id, userId },
\*     { isTimerRunning: true, timerStartTime: new Date(), status: 'in-progress' })
StartTimerOn(db, id, user, clock) ==
    IF OwnedBy(db, id, user)
    THEN [db EXCEPT ![id] = [@ EXCEPT !.isTimerRunning = TRUE,
                                      !.timerStartTime = DateAt(clock),
                                      !.status = "in-progress"]]
    ELSE db

\* the session record built from the document that was read
TimerSession(doc, at, elapsed) ==
    [startTime |-> doc.timerStartTime, endTime |-> DateAt(at), duration |-> elapsed,
     type |-> "work"]

\* findByIdAndUpdate(id, { $set: { isTimerRunning: false,
\*     timeSpent: task.timeSpent + timeElapsed }, $unset: { timerStartTime: 1 },
\*     $push: { timerSessions: session } }); `doc` is the document read earlier
StopTimerUpdate(db, id, doc, at, elapsed) ==
    IF id \in DOMAIN db /\ db[id].exists
    THEN [db EXCEPT ![id] = [@ EXCEPT !.isTimerRunning = FALSE,
                                      !.timeSpent = doc.timeSpent + elapsed,
                                      !.timerStartTime = NoDate,
                                      !.timerSessions =
                                          Append(@, TimerSession(doc, at, elapsed))]]
    ELSE db

\* the tasks the frontend of `user` holds: id -> task
FeTasksOf(db, user) ==
    [i \in {j \in DOMAIN db : db[j].exists /\ db[j].userId = user} |-> db[i]]

\* frontend App.startTimer(taskId): the other running timers are stopped with
\* their elapsed minutes added, then the timer of taskId is started; the
\* updateTask calls are applied one after the other
FeStartTimer(tasks, taskId, clock) ==
    [i \in DOMAIN tasks |->
        IF i = taskId
        THEN [tasks[i] EXCEPT !.isTimerRunning = TRUE,
                              !.timerStartTime = DateAt(clock),
                              !.status = "in-progress"]
        ELSE IF tasks[i].isTimerRunning
        THEN LET timeElapsed == IF Len(tasks[i].timerStartTime) > 0
                                THEN clock - tasks[i].timerStartTime[1] ELSE 0
             IN [tasks[i] EXCEPT !.isTimerRunning = FALSE,
                                 !.timerStartTime = NoDate,
                                 !.timeSpent = @ + (timeElapsed \div MinuteTicks)]
        ELSE tasks[i]]

----------------------------------------------------------------------------
(* SpecTimers: the timer routes and the daily cleanup job on a fixed set   *)
(* of tasks                                                                *)

\* 12 * 60 * 60 * 1000 ms, scaled down to the clock of the model
StuckTicks == 1

\* user 1 owns tasks 1 and 2, the last user owns task 3
TimerTasks == <<TaskDoc(1, 1), TaskDoc(1, 1), TaskDoc(MaxUsers, MaxUsers)>>

TimersInit ==
    /\ now = 0
    /\ scTask = [id |-> 1, dueDate |-> NoDate, priority |-> "medium", timeSpent |-> 0,
                 status |-> "todo"]
    /\ scPc = "off"
    /\ scOut = NoOut
    /\ RequestIdle
    /\ \E started \in BOOLEAN :
         taskDb = IF started THEN StartTimerOn(TimerTasks, 1, 1, 0) ELSE TimerTasks
    /\ projectDb = [u \in Users |-> ProjectDoc(u)]
    /\ reqs = [r \in ReqIds |-> IdleReq]

\* time passes
Tick ==
    /\ now < MaxClock
    /\ now' = now + 1
    /\ UNCHANGED <<scoreVars, requestVars, storeVars>>

\* POST /:id/timer/start, first await: stop the requester's running timers
TimerStartStopAll(r) ==
    /\ FreeSlot(r)
    /\ \E user \in Users, id \in RequestIds(taskDb) :
         /\ taskDb' = StopAllTimers(taskDb, user)
         /\ reqs' = [reqs EXCEPT ![r] =
                        [IdleReq EXCEPT !.kind = "timerStart", !.pc = "startSet",
                                        !.user = user, !.task = id,
                                        !.modified = RunningTimersOf(taskDb, user)]]
    /\ UNCHANGED <<now, scoreVars, requestVars, projectDb>>

\* POST /:id/timer/start, second await: start the timer, or 404
TimerStartSet(r) ==
    /\ reqs[r].pc = "startSet"
    /\ taskDb' = StartTimerOn(taskDb, reqs[r].task, reqs[r].user, now)
    /\ reqs' = [reqs EXCEPT ![r] =
                    IF OwnedBy(taskDb, reqs[r].task, reqs[r].user)
                    THEN Finished(@, 200)
                    ELSE Finished(@, 404)]
    /\ UNCHANGED <<now, scoreVars, requestVars, projectDb>>

\* POST /:id/timer/stop, first await: findOne({ _id, userId, isTimerRunning:
\* true }); when a task is found timeElapsed and the session are computed
TimerStopFind(r) ==
    /\ FreeSlot(r)
    /\ \E user \in Users, id \in RequestIds(taskDb) :
         reqs' = [reqs EXCEPT ![r] =
                    IF OwnedBy(taskDb, id, user) /\ taskDb[id].isTimerRunning
                    THEN [IdleReq EXCEPT !.kind = "timerStop", !.pc = "stopWrite",
                                         !.user = user, !.task = id,
                                         !.snap = taskDb[id], !.at = now,
                                         !.elapsed = ElapsedMinutes(taskDb[id], now)]
                    ELSE [IdleReq EXCEPT !.kind = "timerStop", !.pc = "stopRefuse",
                                         !.user = user, !.task = id]]
    /\ UNCHANGED <<now, scoreVars, requestVars, taskDb, projectDb>>

\* POST /:id/timer/stop: if (!task) return res.status(404)
TimerStopRefuse(r) ==
    /\ reqs[r].pc = "stopRefuse"
    /\ reqs' = [reqs EXCEPT ![r] = Finished(@, 404)]
    /\ UNCHANGED <<now, scoreVars, requestVars, taskDb, projectDb>>

\* POST /:id/timer/stop, second await: findByIdAndUpdate, then res.json
TimerStopWrite(r) ==
    /\ reqs[r].pc = "stopWrite"
    /\ taskDb' = StopTimerUpdate(taskDb, reqs[r].task, reqs[r].snap, reqs[r].at,
                                 reqs[r].elapsed)
    /\ reqs' = [reqs EXCEPT ![r] = Finished(@, 200)]
    /\ UNCHANGED <<now, scoreVars, requestVars, projectDb>>

\* the ids of the documents Task.find({ isTimerRunning: true,
\* timerStartTime: { $lt: twelveHoursAgo } }) returns
StuckTimers(db, clock) ==
    {i \in DOMAIN db : /\ db[i].exists
                       /\ db[i].isTimerRunning
                       /\ Len(db[i].timerStartTime) > 0
                       /\ db[i].timerStartTime[1] < clock - StuckTicks}

\* a set of ids as a list in id order
RECURSIVE IdList(_)
IdList(ids) ==
    IF ids = {} THEN <<>>
    ELSE LET least == CHOOSE i \in ids : \A j \in ids : i <= j
         IN <<least>> \o IdList(ids \ {least})

\* daily cleanup job: const stuckTimers = await Task.find(...)
CleanupFind(r) ==
    /\ FreeSlot(r)
    /\ LET found == IdList(StuckTimers(taskDb, now)) IN
       reqs' = [reqs EXCEPT ![r] =
                  [IdleReq EXCEPT !.kind = "cleanup",
                                  !.pc = IF Len(found) = 0 THEN "done" ELSE "cleanupLoop",
                                  !.queue = [i \in 1..Len(found) |->
                                                [id |-> found[i], doc |-> taskDb[found[i]]]]]]
    /\ UNCHANGED <<now, scoreVars, requestVars, taskDb, projectDb>>

\* daily cleanup job: one iteration of `for (const task of stuckTimers)`
CleanupWrite(r) ==
    /\ reqs[r].pc = "cleanupLoop"
    /\ LET task == Head(reqs[r].queue) IN
       /\ taskDb' = StopTimerUpdate(taskDb, task.id, task.doc, now,
                                    ElapsedMinutes(task.doc, now))
       /\ reqs' = [reqs EXCEPT ![r] =
                       IF Len(@.queue) = 1
                       THEN Finished(@, 0)
                       ELSE [@ EXCEPT !.queue = Tail(@),
                                      !.modified = @ \cup {task.id}]]
    /\ UNCHANGED <<now, scoreVars, requestVars, projectDb>>

TimersNext ==
    \/ Tick
    \/ \E r \in ReqIds : TimerStartStopAll(r)
    \/ \E r \in ReqIds : TimerStartSet(r)
    \/ \E r \in ReqIds : TimerStopFind(r)
    \/ \E r \in ReqIds : TimerStopRefuse(r)
    \/ \E r \in ReqIds : TimerStopWrite(r)
    \/ \E r \in ReqIds : CleanupFind(r)
    \/ \E r \in ReqIds : CleanupWrite(r)

SpecTimers == TimersInit /\ [][TimersNext]_vars

----------------------------------------------------------------------------
(* SpecStore: the routes that create, update and delete tasks and          *)
(* projects, the timer routes and the monthly archive job                  *)

\* 90 * 24 * 60 * 60 * 1000 ms, scaled down to the clock of the model
ArchiveTicks == 1

\* ids of projects a request may name: every project id and one that names
\* nothing
ProjectIds(db) == 1..(Len(db) + 1)

OwnsProject(db, id, user) ==
    id \in DOMAIN db /\ db[id].exists /\ db[id].userId = user

\* request bodies of PUT /:id and the `updates` of POST /bulk: express-validator
\* checks the listed fields only, and the whole body is handed to the update
UpdateBodies(db, pdb) ==
    {[status |-> s] : s \in BackendStatuses}
        \cup {[userId |-> u] : u \in Users}
        \cup {[projectId |-> p] : p \in ProjectIds(pdb)}

\* the update document applied to a stored document
ApplyUpdate(doc, body) ==
    [f \in DOMAIN doc |-> IF f \in DOMAIN body THEN body[f] ELSE doc[f]]

\* taskSchema.pre('save') on a new document whose status was given
PreSave(doc, clock) ==
    IF doc.status = "completed" /\ Len(doc.completedAt) = 0
    THEN [doc EXCEPT !.completedAt = DateAt(clock)]
    ELSE IF doc.status # "completed"
    THEN [doc EXCEPT !.completedAt = NoDate]
    ELSE doc

\* findOneAndUpdate({ _id, userId }, body): no save hook runs
UpdateOwned(db, id, user, body) ==
    IF OwnedBy(db, id, user)
    THEN [db EXCEPT ![id] = ApplyUpdate(@, body)]
    ELSE db

\* updateMany({ _id: { $in: ids }, userId }, body)
UpdateManyOwned(db, ids, user, body) ==
    [i \in DOMAIN db |->
        IF i \in ids /\ OwnedBy(db, i, user) THEN ApplyUpdate(db[i], body) ELSE db[i]]

\* deleteMany({ _id: { $in: ids }, userId })
DeleteManyOwned(db, ids, user) ==
    [i \in DOMAIN db |->
        IF i \in ids /\ OwnedBy(db, i, user) THEN [db[i] EXCEPT !.exists = FALSE]
        ELSE db[i]]

\* monthly job: updateMany({ status: 'completed', completedAt: { $lt:
\* ninetyDaysAgo }, status: { $ne: 'archived' } }, ...); the object literal
\* names `status` twice and keeps the second value, so the filter is
\* { status: { $ne: 'archived' }, completedAt: { $lt: ninetyDaysAgo } }
ArchiveFilter(doc, clock) ==
    /\ doc.exists
    /\ doc.status # "archived"
    /\ Len(doc.completedAt) > 0
    /\ doc.completedAt[1] < clock - ArchiveTicks

ArchiveOld(db, clock) ==
    [i \in DOMAIN db |->
        IF ArchiveFilter(db[i], clock)
        THEN [db[i] EXCEPT !.status = "archived", !.archivedAt = DateAt(clock)]
        ELSE db[i]]

\* documents about to be saved by requests that are past their checks
PendingSaves == Cardinality({r \in ReqIds : reqs[r].pc \in {"createSave", "tbSave"}})

RoomForTask == Len(taskDb) + PendingSaves < MaxStoreTasks

\* a one-step request that has answered: who asked is kept
Answer(kind, user, status) ==
    [IdleReq EXCEPT !.kind = kind, !.pc = "done", !.user = user, !.status = status]

StoreInit ==
    /\ now = 0
    /\ scTask = [id |-> 1, dueDate |-> NoDate, priority |-> "medium", timeSpent |-> 0,
                 status |-> "todo"]
    /\ scPc = "off"
    /\ scOut = NoOut
    /\ RequestIdle
    /\ taskDb = <<TaskDoc(1, 1)>>
    /\ projectDb = [u \in Users |-> ProjectDoc(u)]
    /\ reqs = [r \in ReqIds |-> IdleReq]

\* POST /, first await: the project must be one of the requester's
CreateTaskCheck(r) ==
    /\ FreeSlot(r)
    /\ RoomForTask
    /\ \E user \in Users, project \in ProjectIds(projectDb),
          status \in {"todo", "in-progress", "completed"} :
         reqs' = [reqs EXCEPT ![r] =
                    IF OwnsProject(projectDb, project, user)
                    THEN [IdleReq EXCEPT !.kind = "create", !.pc = "createSave",
                                         !.user = user,
                                         !.snap = [TaskDoc(user, project)
                                                     EXCEPT !.status = status]]
                    ELSE Answer("create", user, 404)]
    /\ UNCHANGED <<now, scoreVars, requestVars, taskDb, projectDb>>

\* POST /, second await: task.save() runs the pre-save hook
CreateTaskSave(r) ==
    /\ reqs[r].pc = "createSave"
    /\ taskDb' = Append(taskDb, PreSave(reqs[r].snap, now))
    /\ reqs' = [reqs EXCEPT ![r] = Answer("create", @.user, 201)]
    /\ UNCHANGED <<now, scoreVars, requestVars, projectDb>>

\* PUT /:id
PutTask(r) ==
    /\ FreeSlot(r)
    /\ \E user \in Users, id \in RequestIds(taskDb),
          body \in UpdateBodies(taskDb, projectDb) :
         /\ taskDb' = UpdateOwned(taskDb, id, user, body)
         /\ reqs' = [reqs EXCEPT ![r] =
                        Answer("put", user,
                               IF OwnedBy(taskDb, id, user) THEN 200 ELSE 404)]
    /\ UNCHANGED <<now, scoreVars, requestVars, projectDb>>

\* DELETE /:id
DeleteTask(r) ==
    /\ FreeSlot(r)
    /\ \E user \in Users, id \in RequestIds(taskDb) :
         /\ taskDb' = DeleteManyOwned(taskDb, {id}, user)
         /\ reqs' = [reqs EXCEPT ![r] =
                        Answer("delete", user,
                               IF OwnedBy(taskDb, id, user) THEN 200 ELSE 404)]
    /\ UNCHANGED <<now, scoreVars, requestVars, projectDb>>

\* POST /bulk
BulkTasks(r) ==
    /\ FreeSlot(r)
    /\ \E user \in Users, ids \in SUBSET RequestIds(taskDb) \ {{}},
          action \in {"delete", "update", "archive"},
          updates \in UpdateBodies(taskDb, projectDb) :
         /\ taskDb' =
              CASE action = "delete" -> DeleteManyOwned(taskDb, ids, user)
                [] action = "update" -> UpdateManyOwned(taskDb, ids, user, updates)
                [] action = "archive" ->
                     UpdateManyOwned(taskDb, ids, user,
                                     [status |-> "archived", archivedAt |-> DateAt(now)])
         /\ reqs' = [reqs EXCEPT ![r] = Answer("bulk", user, 200)]
    /\ UNCHANGED <<now, scoreVars, requestVars, projectDb>>

\* POST /time-blocks with a taskId, first await: the task must be the
\* requester's
TimeBlockFind(r) ==
    /\ FreeSlot(r)
    /\ RoomForTask
    /\ \E user \in Users, id \in RequestIds(taskDb) :
         reqs' = [reqs EXCEPT ![r] =
                    IF OwnedBy(taskDb, id, user)
                    THEN [IdleReq EXCEPT !.kind = "timeBlock", !.pc = "tbSave",
                                         !.user = user,
                                         !.snap = TaskDoc(user, taskDb[id].projectId)]
                    ELSE Answer("timeBlock", user, 404)]
    /\ UNCHANGED <<now, scoreVars, requestVars, taskDb, projectDb>>

\* POST /time-blocks without a taskId: the projectId of the body is saved
TimeBlockOfBody(r) ==
    /\ FreeSlot(r)
    /\ RoomForTask
    /\ \E user \in Users, project \in ProjectIds(projectDb) :
         /\ taskDb' = Append(taskDb, PreSave(TaskDoc(user, project), now))
         /\ reqs' = [reqs EXCEPT ![r] = Answer("timeBlock", user, 201)]
    /\ UNCHANGED <<now, scoreVars, requestVars, projectDb>>

\* POST /time-blocks with a taskId, second await: timeBlock.save()
TimeBlockSave(r) ==
    /\ reqs[r].pc = "tbSave"
    /\ taskDb' = Append(taskDb, PreSave(reqs[r].snap, now))
    /\ reqs' = [reqs EXCEPT ![r] = Answer("timeBlock", @.user, 201)]
    /\ UNCHANGED <<now, scoreVars, requestVars, projectDb>>

\* DELETE /projects/:id, first await: the project must be the requester's
DeleteProjectFind(r) ==
    /\ FreeSlot(r)
    /\ \E user \in Users, project \in ProjectIds(projectDb) :
         reqs' = [reqs EXCEPT ![r] =
                    IF OwnsProject(projectDb, project, user)
                    THEN [IdleReq EXCEPT !.kind = "deleteProject", !.pc = "dpCount",
                                         !.user = user, !.task = project]
                    ELSE Answer("deleteProject", user, 404)]
    /\ UNCHANGED <<now, scoreVars, requestVars, taskDb, projectDb>>

\* Task.countDocuments({ projectId, userId })
TaskCount(db, project, user) ==
    Cardinality({i \in DOMAIN db :
                   db[i].exists /\ db[i].projectId = project /\ db[i].userId = user})

\* DELETE /projects/:id, second await: refuse while the project has tasks
DeleteProjectCount(r) ==
    /\ reqs[r].pc = "dpCount"
    /\ reqs' = [reqs EXCEPT ![r] =
                  IF TaskCount(taskDb, @.task, @.user) > 0
                  THEN Answer("deleteProject", @.user, 400)
                  ELSE [@ EXCEPT !.pc = "dpDelete"]]
    /\ UNCHANGED <<now, scoreVars, requestVars, taskDb, projectDb>>

\* DELETE /projects/:id, third await: Project.findByIdAndDelete
DeleteProjectDelete(r) ==
    /\ reqs[r].pc = "dpDelete"
    /\ projectDb' = [projectDb EXCEPT ![reqs[r].task] = [@ EXCEPT !.exists = FALSE]]
    /\ reqs' = [reqs EXCEPT ![r] = Answer("deleteProject", @.user, 200)]
    /\ UNCHANGED <<now, scoreVars, requestVars, taskDb>>

\* the monthly cron job; a run that matches no task changes nothing
ArchiveJob ==
    /\ taskDb' = ArchiveOld(taskDb, now)
    /\ taskDb' # taskDb
    /\ UNCHANGED <<now, scoreVars, requestVars, projectDb, reqs>>

StoreNext ==
    \/ Tick
    \/ \E r \in ReqIds : CreateTaskCheck(r)
    \/ \E r \in ReqIds : CreateTaskSave(r)
    \/ \E r \in ReqIds : PutTask(r)
    \/ \E r \in ReqIds : DeleteTask(r)
    \/ \E r \in ReqIds : BulkTasks(r)
    \/ \E r \in ReqIds : TimeBlockFind(r)
    \/ \E r \in ReqIds : TimeBlockOfBody(r)
    \/ \E r \in ReqIds : TimeBlockSave(r)
    \/ \E r \in ReqIds : DeleteProjectFind(r)
    \/ \E r \in ReqIds : DeleteProjectCount(r)
    \/ \E r \in ReqIds : DeleteProjectDelete(r)
    \/ \E r \in ReqIds : TimerStartStopAll(r)
    \/ \E r \in ReqIds : TimerStartSet(r)
    \/ \E r \in ReqIds : TimerStopFind(r)
    \/ \E r \in ReqIds : TimerStopRefuse(r)
    \/ \E r \in ReqIds : TimerStopWrite(r)
    \/ ArchiveJob

SpecStore == StoreInit /\ [][StoreNext]_vars

----------------------------------------------------------------------------
(* Claims about the scoring of one task, checked under SpecScore *)

Scored == scPc \in {"backend", "frontend"}

\* C1: the deadline rule contributes exactly one of +40 "Due very soon"
\* (daysUntilDue <= 1, overdue included), +25 "Due within 3 days"
\* (1 < daysUntilDue <= 3), +15 "Due this week" (3 < daysUntilDue <= 7), and
\* nothing when daysUntilDue > 7 or there is no dueDate; never more than one
\* branch fires.  ceil(x / day) <= k is stated on ticks as x <= k * day.
C1_DeadlineRule ==
    Scored =>
        LET d == scOut.deadline
            nothing == [score |-> 0, reasons |-> <<>>]
        IN /\ Len(d.reasons) <= 1
           /\ IF ~HasDueDate(scTask) THEN d = nothing
              ELSE LET diff == DueTime(scTask) - now IN
                   IF diff <= 1 * DayTicks
                   THEN d = [score |-> 40, reasons |-> <<"Due very soon">>]
                   ELSE IF diff <= 3 * DayTicks
                   THEN d = [score |-> 25, reasons |-> <<"Due within 3 days">>]
                   ELSE IF diff <= 7 * DayTicks
                   THEN d = [score |-> 15, reasons |-> <<"Due this week">>]
                   ELSE d = nothing
           /\ SubSeq(scOut.reasons, 1, Len(d.reasons)) = d.reasons
           /\ Cardinality({i \in 1..Len(scOut.reasons) :
                  scOut.reasons[i] \in {"Due very soon", "Due within 3 days",
                                        "Due this week"}}) = Len(d.reasons)

\* an overdue task has been scored and took the first branch
C1_Witness ==
    /\ Scored
    /\ HasDueDate(scTask)
    /\ DueTime(scTask) < now
    /\ scOut.deadline.score = 40

\* C2: score = deadlinePoints + priority weight (30 / 15 / 5, no reason)
\* + 20 if timeSpent > 120 (strictly) + 15 if status is 'in-progress'; with no
\* dueDate the score is a function of priority, timeSpent and status only.
C2_ScoreSum ==
    Scored =>
        LET weight == IF scTask.priority = "high" THEN 30
                      ELSE IF scTask.priority = "medium" THEN 15 ELSE 5
            time == IF scTask.timeSpent >= 121 THEN 20 ELSE 0
            stat == IF scTask.status = "in-progress" THEN 15 ELSE 0
        IN /\ scOut.score = scOut.deadline.score + weight + time + stat
           /\ ~HasDueDate(scTask) => scOut.score = weight + time + stat
           /\ Len(scOut.reasons) = Len(scOut.deadline.reasons)
                  + (IF time > 0 THEN 1 ELSE 0) + (IF stat > 0 THEN 1 ELSE 0)

\* a task with exactly 120 minutes and no due date has been scored
C2_Witness ==
    /\ Scored
    /\ scTask.timeSpent = 120
    /\ ~HasDueDate(scTask)
    /\ scTask.status = "in-progress"
    /\ scTask.priority = "medium"
    /\ scOut.score = 30

\* C3: the label is a total function of the score: >= 60 high, 30..59 medium,
\* < 30 low; every reachable score lies in 5..105.
C3_LabelThresholds ==
    Scored =>
        LET label == scOut.suggestion.suggestedPriority IN
        /\ scOut.score \in 5..105
        /\ label \in {"low", "medium", "high"}
        /\ (label = "high") <=> (scOut.score >= 60)
        /\ (label = "medium") <=> (scOut.score >= 30 /\ scOut.score < 60)
        /\ (label = "low") <=> (scOut.score < 30)

\* the boundary score 60 has been produced and labelled high
C3_Witness ==
    /\ Scored
    /\ scOut.score = 60
    /\ scOut.suggestion.suggestedPriority = "high"

\* the boundary score 30 has been produced and labelled medium
C3_WitnessMedium ==
    /\ Scored
    /\ scOut.score = 30
    /\ scOut.suggestion.suggestedPriority = "medium"

\* C4: the reason is the triggered-rule strings joined with ", " in rule
\* order (deadline, time, status); with none triggered it is the literal
\* "Based on current workload analysis"; it is never empty.
C4_ReasonString ==
    Scored =>
        LET diff == DueTime(scTask) - now
            dr == IF ~HasDueDate(scTask) THEN ""
                  ELSE IF diff <= DayTicks THEN "Due very soon"
                  ELSE IF diff <= 3 * DayTicks THEN "Due within 3 days"
                  ELSE IF diff <= 7 * DayTicks THEN "Due this week"
                  ELSE ""
            tr == IF scTask.timeSpent > 120 THEN "Significant time invested" ELSE ""
            sr == IF scTask.status = "in-progress" THEN "Currently in progress" ELSE ""
            Sep(a, b) == IF a = "" THEN b
                         ELSE IF b = "" THEN a
                         ELSE a \o ", " \o b
            joined == Sep(Sep(dr, tr), sr)
            reason == scOut.suggestion.reason
        IN /\ reason # ""
           /\ reason = IF joined = "" THEN "Based on current workload analysis"
                       ELSE joined

\* all three reason-bearing rules fired on one task
C4_Witness ==
    /\ Scored
    /\ scOut.suggestion.reason
         = "Due within 3 days, Significant time invested, Currently in progress"

\* no reason-bearing rule fired
C4_WitnessDefault ==
    /\ Scored
    /\ scOut.reasons = <<>>
    /\ scOut.suggestion.reason = "Based on current workload analysis"

\* C5: confidence = min(95, max(60, score + random)) with random in [0,20)
\* lies in 60..95 inclusive (counted in 1/RandScale).
C5_ConfidenceRange ==
    Scored =>
        LET raw == scOut.score * RandScale + scOut.rnd
            c == scOut.suggestion.confidence
        IN /\ scOut.rnd >= 0 /\ scOut.rnd < 20 * RandScale
           /\ c >= 60 * RandScale
           /\ c <= 95 * RandScale
           /\ c = IF raw < 60 * RandScale THEN 60 * RandScale
                  ELSE IF raw > 95 * RandScale THEN 95 * RandScale
                  ELSE raw

\* a score below 60 even with the largest random value: clamped up to 60
C5_Witness ==
    /\ Scored
    /\ scOut.score * RandScale + scOut.rnd < 60 * RandScale
    /\ scOut.rnd = 20 * RandScale - 1
    /\ scOut.suggestion.confidence = 60 * RandScale

\* a score above 95: clamped down to 95
C5_WitnessCeiling ==
    /\ Scored
    /\ scOut.score > 95
    /\ scOut.suggestion.confidence = 95 * RandScale

----------------------------------------------------------------------------
(* Claims about the request, checked under Spec *)

\* the envelope the backend heuristic returned, when it was invoked
BeEnvelope == beResp.body.obj

\* C6: the heuristic returns exactly one suggestion per input task, in input
\* order, the i-th taskId being the id of the i-th input task.
C6_OnePerTaskInOrder ==
    /\ \A k \in 1..Len(beScored) :
         /\ Len(BeEnvelope.suggestions) = Len(beScored[k])
         /\ \A i \in 1..Len(beScored[k]) :
              BeEnvelope.suggestions[i].taskId = beScored[k][i].id
    /\ \A k \in 1..Len(feScored) :
         /\ Len(feResult.suggestions) = Len(feScored[k])
         /\ \A i \in 1..Len(feScored[k]) :
              feResult.suggestions[i].taskId = feScored[k][i].id

\* both copies have run: the backend on what remains of a two-task store once
\* the completed first task is filtered out, the frontend on a list of two
C6_Witness ==
    /\ Len(beScored) = 1
    /\ Len(beScored[1]) = 1
    /\ Len(dbTasks) = 2
    /\ beScored[1][1].id = 2
    /\ Len(feScored) = 1
    /\ Len(feScored[1]) = 2

\* C7: insights has exactly two entries, the static string and then the
\* overdue string iff some input task has a dueDate strictly before now and a
\* status different from 'completed', else the no-overdue string.
C7_Insights ==
    LET Expected(tasks) ==
            <<"Prioritization based on deadlines, time investment, and current status",
              IF \E i \in 1..Len(tasks) :
                    /\ HasDueDate(tasks[i])
                    /\ DueTime(tasks[i]) < now
                    /\ tasks[i].status # "completed"
              THEN "You have overdue tasks that need immediate attention"
              ELSE "No overdue tasks - good job staying on track!">>
    IN /\ \A k \in 1..Len(beScored) : BeEnvelope.insights = Expected(beScored[k])
       /\ \A k \in 1..Len(feScored) : feResult.insights = Expected(feScored[k])

\* C8: every task handed to the scoring function is eligible (not completed),
\* on the backend and on the frontend path.
C8_OnlyEligibleScored ==
    /\ \A k \in 1..Len(beScored) : \A i \in 1..Len(beScored[k]) :
          beScored[k][i].status # "completed"
    /\ \A k \in 1..Len(feScored) : \A i \in 1..Len(feScored[k]) :
          feScored[k][i].status # "completed"

\* C9: with no eligible task the result is exactly the empty envelope with the
\* "No active tasks" insight, and the scoring function is never invoked on an
\* empty list, on every path.
C9_EmptyShortCircuit ==
    LET EmptyEnvelope == [suggestions |-> <<>>,
                          insights |-> <<"No active tasks found to prioritize.">>]
        Active(tasks) == SelectSeq(tasks, LAMBDA t : t.status # "completed")
    IN /\ \A k \in 1..Len(beScored) : Len(beScored[k]) > 0
       /\ \A k \in 1..Len(feScored) : Len(feScored[k]) > 0
       /\ (bePc = "responded" /\ beResp.status = 200 /\ Active(dbTasks) = <<>>)
              => beResp.body = JObject(EmptyEnvelope)
       /\ (fePc = "done" /\ Len(feScored) > 0 /\ Active(feTasks) = <<>>)
              => /\ feResult.suggestions = EmptyEnvelope.suggestions
                 /\ feResult.insights = EmptyEnvelope.insights

\* C10 as stated: after a failure of the remote call the backend never answers
\* with an error; it answers with the heuristic's envelope over the task set.
C10_NeverAnError ==
    (aiReply = "throws" /\ bePc = "responded") =>
        /\ beResp.status = 200
        /\ beScored = <<FindActiveTasks(dbTasks)>>

\* C10 amended: after a failure of the remote call the backend answers 500
\* exactly when the task query of its fallback fails too; otherwise it answers
\* 200 with the heuristic's envelope over the re-read active tasks.  The
\* frontend call always settles with a result: the backend's envelope read
\* with defaults, or, after a 500 or a network error, its own heuristic's
\* envelope over the frontend's tasks.
C10_FallbackUnlessStoreFails ==
    /\ (aiReply = "throws" /\ bePc = "responded") =>
          IF dbErrors > 0
          THEN /\ beResp.status = 500
               /\ beScored = <<>>
          ELSE /\ beResp.status = 200
               /\ beScored = <<FindActiveTasks(dbTasks)>>
               /\ Len(BeEnvelope.suggestions) = Len(beScored[1])
               /\ BeEnvelope.insights[1] = StaticInsight
               /\ \A i \in 1..Len(beScored[1]) :
                     BeEnvelope.suggestions[i].suggestedPriority
                         \in {"low", "medium", "high"}
    /\ (aiReply = "throws" /\ fePc = "done") =>
          IF feScored = <<>>
          THEN /\ bePc = "responded"
               /\ beResp.status = 200
               /\ feResult.suggestions = BeEnvelope.suggestions
               /\ feResult.insights = BeEnvelope.insights
          ELSE /\ feScored = <<feTasks>>
               /\ Len(feResult.suggestions) = Len(feTasks)
               /\ feResult.insights[1] = StaticInsight

\* the remote call threw, the backend fell back over two tasks and the
\* frontend returned that envelope
C10_Witness ==
    /\ aiReply = "throws"
    /\ bePc = "responded"
    /\ beResp.status = 200
    /\ Len(beScored) = 1
    /\ Len(beScored[1]) = 2
    /\ fePc = "done"
    /\ feScored = <<>>
    /\ Len(feResult.suggestions) = 2

\* C11: a remote reply that is not valid JSON of the expected shape (a bare
\* string, null, an object without suggestions, unparsable text) is never
\* forwarded: the response is the heuristic's envelope over the same tasks.
C11_MalformedNeverForwarded ==
    (bePc = "responded"
        /\ aiReply \in {"noSuggestions", "wrongTypes", "string", "null", "notJSON"}) =>
        /\ beResp.status = 200
        /\ beScored = <<beTasks>>
        /\ beResp.body.type = "object"
        /\ "suggestions" \in DOMAIN beResp.body.obj
        /\ Len(BeEnvelope.suggestions) = Len(beTasks)
        /\ BeEnvelope.insights[1] = StaticInsight

----------------------------------------------------------------------------
(* Further claims about the scoring of one task, checked under SpecScore *)

\* C13: a second invocation on the same input with the same now gives the
\* same suggestedPriority and the same reason for the task, whatever the
\* random source returns (only confidence may differ), and the invocation
\* leaves the input task as it was.  Every value of the random source occurs
\* in a recorded invocation; each is compared with the invocations that draw
\* the least and the greatest value, which makes all of them agree pairwise.
C13_Idempotent ==
    /\ [](scPc = "backend" =>
            \A r \in {0, 20 * RandScale - 1} :
                \A again \in {BeSuggestion(scTask, now, r)} :
                /\ again.taskId = scOut.suggestion.taskId
                /\ again.suggestedPriority = scOut.suggestion.suggestedPriority
                /\ again.reason = scOut.suggestion.reason)
    /\ [][scTask' = scTask /\ now' = now]_vars

\* a task whose score (55) is within the jitter of the "high" threshold was
\* scored with the largest random value, and another random value gives another confidence
C13_Witness ==
    /\ scPc = "backend"
    /\ scOut.score = 55
    /\ scOut.rnd = 20 * RandScale - 1
    /\ scOut.suggestion.suggestedPriority = "medium"
    /\ BeSuggestion(scTask, now, 0).confidence # scOut.suggestion.confidence

\* order of the labels: low < medium < high
LabelRank(label) ==
    CASE label = "low" -> 0
      [] label = "medium" -> 1
      [] label = "high" -> 2

\* whole days from the clock to a due time, rounded up
DaysFrom(clock, t) == Ceil(t - clock, DayTicks)

\* C14: of two tasks that differ in the due date only, with daysUntilDue
\* d1 <= d2 both in 2..10, the one due sooner scores at least as much as the
\* other and its label is not lower.
C14_DeadlineMonotone ==
    (scPc = "backend" /\ HasDueDate(scTask)
        /\ DaysFrom(now, DueTime(scTask)) \in 2..10) =>
        \A t \in DueTime(scTask)..MaxDue :
            DaysFrom(now, t) \in 2..10 =>
                \A later \in {BeScoreTask([scTask EXCEPT !.dueDate = DateAt(t)], now)} :
                    /\ scOut.score >= later.score
                    /\ LabelRank(BeLabel(scOut.score)) >= LabelRank(BeLabel(later.score))
                    /\ LabelRank(scOut.suggestion.suggestedPriority)
                           >= LabelRank(BeLabel(later.score))

\* a task due in 3 days scores strictly more than its copy due in 4 days and
\* gets a higher label
C14_Witness ==
    /\ scPc = "backend"
    /\ HasDueDate(scTask)
    /\ DaysFrom(now, DueTime(scTask)) = 3
    /\ DueTime(scTask) + DayTicks <= MaxDue
    /\ scOut.score = 30
    /\ scOut.suggestion.suggestedPriority = "medium"
    /\ BeScoreTask([scTask EXCEPT !.dueDate = DateAt(DueTime(scTask) + DayTicks)],
                   now).score = 20

\* C15: with no dueDate, timeSpent <= 120 and a status other than
\* 'in-progress' only the priority weight counts: a 'high' task scores exactly
\* 30 and is labelled "medium", a 'low' task scores exactly 5 and is labelled
\* "low", and in both cases the reason is the default string.
C15_PriorityOnly ==
    (scPc = "backend" /\ ~HasDueDate(scTask) /\ scTask.timeSpent <= 120
        /\ scTask.status # "in-progress") =>
        /\ scOut.deadline.score = 0
        /\ scOut.reasons = <<>>
        /\ scOut.suggestion.reason = "Based on current workload analysis"
        /\ scTask.priority = "high" =>
               /\ scOut.score = 30
               /\ scOut.suggestion.suggestedPriority = "medium"
        /\ scTask.priority = "low" =>
               /\ scOut.score = 5
               /\ scOut.suggestion.suggestedPriority = "low"

\* a 'high' task on the timeSpent boundary, without a due date, was scored
C15_Witness ==
    /\ scPc = "backend"
    /\ ~HasDueDate(scTask)
    /\ scTask.timeSpent = 120
    /\ scTask.status = "completed"
    /\ scTask.priority = "high"
    /\ scOut.suggestion.suggestedPriority = "medium"

\* the same for a 'low' task
C15_WitnessLow ==
    /\ scPc = "backend"
    /\ ~HasDueDate(scTask)
    /\ scTask.timeSpent = 0
    /\ scTask.status = "todo"
    /\ scTask.priority = "low"
    /\ scOut.score = 5

\* a 'high' task that is not completed and is due exactly one day after now
\* was scored by the backend
DueTomorrowHigh ==
    /\ scPc = "backend"
    /\ HasDueDate(scTask)
    /\ DueTime(scTask) = now + DayTicks
    /\ scTask.priority = "high"
    /\ scTask.status # "completed"

\* C16: every 'high' task due exactly 1 day after now, of any timeSpent and
\* any non-completed status, scores 40 + 30 = 70 and is labelled "high".
C16_ExactlySeventy ==
    DueTomorrowHigh =>
        /\ scOut.score = 70
        /\ scOut.suggestion.suggestedPriority = "high"

\* C16, amended: such a task scores 70 plus 20 if timeSpent > 120 plus 15 if
\* it is in progress (so 70 exactly when neither holds, and never less), and
\* is labelled "high".
C16_SeventyPlusOtherRules ==
    DueTomorrowHigh =>
        /\ scOut.deadline.score = 40
        /\ scOut.score = 70 + (IF scTask.timeSpent > 120 THEN 20 ELSE 0)
                            + (IF scTask.status = "in-progress" THEN 15 ELSE 0)
        /\ scOut.score >= 70
        /\ (scTask.timeSpent <= 120 /\ scTask.status # "in-progress") => scOut.score = 70
        /\ scOut.suggestion.suggestedPriority = "high"

\* such a task with more than two hours spent and in progress scored 105
C16_Witness ==
    /\ DueTomorrowHigh
    /\ scTask.timeSpent = 150
    /\ scTask.status = "in-progress"
    /\ scOut.score = 105

\* such a task with no other rule firing scored exactly 70
C16_WitnessSeventy ==
    /\ DueTomorrowHigh
    /\ scTask.timeSpent = 120
    /\ scTask.status = "todo"
    /\ scOut.score = 70

\* C17: the task {priority: medium, timeSpent: 150, status: in-progress,
\* dueDate: now + 2 days} scores 25 + 15 + 20 + 15 = 75, is labelled "high",
\* and its reason is exactly "Due within 3 days, Significant time invested,
\* Currently in progress"; this holds in the backend and in the frontend copy.
C17_Scenario ==
    (scPc \in {"backend", "frontend"}
        /\ scTask.priority = "medium" /\ scTask.timeSpent = 150
        /\ scTask.status = "in-progress"
        /\ scTask.dueDate = DateAt(now + 2 * DayTicks)) =>
        /\ scOut.deadline.score = 25
        /\ scOut.score = 75
        /\ scOut.suggestion.suggestedPriority = "high"
        /\ scOut.reasons = <<"Due within 3 days", "Significant time invested",
                             "Currently in progress">>
        /\ scOut.suggestion.reason =
               "Due within 3 days, Significant time invested, Currently in progress"

\* the scenario task was scored by the backend
C17_Witness ==
    /\ scPc = "backend"
    /\ scTask.priority = "medium"
    /\ scTask.timeSpent = 150
    /\ scTask.status = "in-progress"
    /\ scTask.dueDate = DateAt(now + 2 * DayTicks)
    /\ scOut.score = 75

\* the scenario task was scored by the frontend
C17_WitnessFrontend ==
    /\ scPc = "frontend"
    /\ scTask.priority = "medium"
    /\ scTask.timeSpent = 150
    /\ scTask.status = "in-progress"
    /\ scTask.dueDate = DateAt(now + 2 * DayTicks)
    /\ scOut.score = 75

C18_WitnessFrontend ==
    /\ scPc = "frontend"
    /\ scTask.timeSpent = 120
    /\ HasDueDate(scTask)
    /\ DueTime(scTask) < now
    /\ fallbackPrioritization(<<scTask>>, now, <<scOut.rnd>>).insights[2] = OverdueInsight

----------------------------------------------------------------------------
(* Further claims about one prioritization request, checked under Spec *)

\* the frontend fallback path returns exactly the four fixed recommendations
C19_FrontendFallbackFour ==
    (fePc = "done" /\ Len(feScored) = 1) =>
        /\ feResult.recommendations = FeRecommendations
        /\ Len(feResult.recommendations) = 4

\* the backend rule-based fallback, at the parse-error site and at the
\* call-error site, answers an envelope with suggestions and insights only
C19_BackendFallbackKeys ==
    (bePc = "responded" /\ Len(beScored) = 1) =>
        /\ aiReply \in {"notJSON", "throws", "none"}
        /\ beResp.body.type = "object"
        /\ DOMAIN beResp.body.obj = {"suggestions", "insights"}

\* whatever the backend returned, the object suggestPrioritization returns
\* has the three keys, each a list
C19_AllKeysLists ==
    fePc = "done" =>
        /\ DOMAIN feResult = {"suggestions", "insights", "recommendations"}
        /\ IsArray(feResult.suggestions)
        /\ IsArray(feResult.insights)
        /\ IsArray(feResult.recommendations)

\* C19: shape of the envelope per path: the frontend fallback returns a
\* recommendations list of exactly four fixed strings; the backend rule-based
\* fallback (both sites) returns an envelope with only suggestions and
\* insights and no recommendations key; and whatever the backend returns, the
\* object returned by suggestPrioritization has all three keys suggestions,
\* insights and recommendations, each a list.
C19_EnvelopeShape ==
    /\ C19_FrontendFallbackFour
    /\ C19_BackendFallbackKeys
    /\ C19_AllKeysLists

----------------------------------------------------------------------------
(* Claims about the backend AI endpoints, checked under SpecEndpoints *)

\* one of the three endpoints has answered
Answered == bePc \in {"responded", "drResponded", "stResponded"}

\* C20: whenever the OpenAI API is unavailable (the completion call throws),
\* every backend AI endpoint, POST /prioritize, POST /daily-review and
\* POST /suggest-tasks, still answers with a rule-based result instead of an
\* error status.  (The store is taken to work: no query has failed.)
C20_FallbackOnEveryEndpoint ==
    (Answered /\ aiReply = "throws" /\ dbErrors = 0) =>
        /\ beResp.status = 200
        /\ bePc = "responded" =>
               /\ beScored = <<FindActiveTasks(dbTasks)>>
               /\ "suggestions" \in DOMAIN beResp.body.obj
        /\ bePc = "drResponded" =>
               beResp.body = JObject(generateRuleBasedDailyReview(
                                         ReviewData(beTasks, dbTasks, now)))

----------------------------------------------------------------------------
(* Claims about the timers, checked under SpecTimers *)

\* C22: at most one task per user has isTimerRunning = true, after any
\* sequence of start-timer and stop-timer requests, including two
\* start-timer requests on different tasks whose database steps interleave.
C22_AtMostOneRunningTimer ==
    \A user \in Users : Cardinality(RunningTimersOf(taskDb, user)) <= 1

C23_WitnessNotFound ==
    \E r \in ReqIds :
        /\ reqs[r].kind = "timerStop"
        /\ reqs[r].status = 404
        /\ \E user \in Users : RunningTimersOf(taskDb, user) # {}

\* C24: a start-timer request that answers 404 (task id unknown or owned by
\* another user) leaves every task unchanged: neither its updateMany nor its
\* findOneAndUpdate has modified a document, so a timer that was running on
\* another task of the requester is still running.
C24_FailedStartChangesNothing ==
    [][\A r \in ReqIds :
         (reqs[r].pc = "startSet" /\ reqs'[r].pc = "done" /\ reqs'[r].status = 404) =>
             /\ reqs[r].modified = {}
             /\ taskDb' = taskDb]_vars

\* C25: frontend and backend agree on what starting a timer does to a
\* previously running task: when a timer is started on task B while task A's
\* timer is running, A ends with isTimerRunning = false, its start time
\* cleared, and its timeSpent increased by floor(elapsed / one minute) for the
\* interrupted run, the same timeSpent that frontend App.startTimer gives A.
\* Stated on the backend step that stops A.
C25_StartKeepsInterruptedTime ==
    [][\A r \in ReqIds :
         (reqs[r].pc = "idle" /\ reqs'[r].kind = "timerStart") =>
             \A a \in RunningTimersOf(taskDb, reqs'[r].user) \ {reqs'[r].task} :
                 /\ taskDb'[a].isTimerRunning = FALSE
                 /\ taskDb'[a].timerStartTime = NoDate
                 /\ taskDb'[a].timeSpent =
                        taskDb[a].timeSpent + ElapsedMinutes(taskDb[a], now)
                 /\ taskDb'[a].timeSpent =
                        FeStartTimer(FeTasksOf(taskDb, reqs'[r].user),
                                     reqs'[r].task, now)[a].timeSpent]_vars

\* the sum of the durations of a list of timer sessions
RECURSIVE SumDurations(_)
SumDurations(sessions) ==
    IF Len(sessions) = 0 THEN 0
    ELSE Head(sessions).duration + SumDurations(Tail(sessions))

\* C26: each timer run is accounted exactly once under any interleaving of
\* stop-timer requests for the same task and the daily cleanup job: one run
\* adds its elapsed minutes to timeSpent once and appends exactly one
\* session, so the timeSpent of a task (changed only by timers here) always
\* equals the sum of the durations in its timerSessions.
C26_TimeSpentIsSumOfSessions ==
    \A id \in DOMAIN taskDb :
        taskDb[id].timeSpent = SumDurations(taskDb[id].timerSessions)

----------------------------------------------------------------------------
(* Claims about the task store, checked under SpecStore *)

\* a step of the monthly archive job: the only step that changes tasks
\* without a request taking a step
ArchiveJobStep == reqs' = reqs /\ taskDb' # taskDb

\* C21: the monthly archive job changes only tasks whose status is
\* 'completed' and whose completedAt is more than 90 days in the past, and
\* sets them to 'archived' with archivedAt; a 'todo' or 'in-progress' task is
\* never archived by the job, whatever its completedAt
C21_ArchiveOnlyOldCompleted ==
    [][ArchiveJobStep =>
         \A id \in DOMAIN taskDb :
            taskDb'[id] # taskDb[id] =>
                /\ taskDb[id].status = "completed"
                /\ Len(taskDb[id].completedAt) > 0
                /\ taskDb[id].completedAt[1] < now - ArchiveTicks
                /\ taskDb'[id] = [taskDb[id] EXCEPT !.status = "archived",
                                                    !.archivedAt = DateAt(now)]]_vars

\* C27: a task has completedAt set if and only if its status is 'completed':
\* status 'completed' implies completedAt set, and a status other than
\* 'completed' implies completedAt cleared, however the status was changed
C27_CompletedAtTracksStatus ==
    \A id \in DOMAIN taskDb :
        taskDb[id].exists =>
            (taskDb[id].status = "completed" <=> Len(taskDb[id].completedAt) > 0)

\* C28: every task's projectId names an existing project owned by the
\* task's user, after any interleaving of create-task, update-task,
\* bulk-update, create-time-block and delete-project requests
C28_ReferentialIntegrity ==
    \A id \in DOMAIN taskDb :
        taskDb[id].exists =>
            OwnsProject(projectDb, taskDb[id].projectId, taskDb[id].userId)

\* the requests that took a step, and who sent them
Stepping == {r \in ReqIds : reqs'[r] # reqs[r]}

Requester(r) == IF reqs[r].pc = "idle" THEN reqs'[r].user ELSE reqs[r].user

\* C29: a request of user A changes or deletes only tasks whose userId is A,
\* a created task is owned by its requester, and a task's userId never
\* changes, whatever the request body contains
C29_UserIsolation ==
    [][\A id \in DOMAIN taskDb' :
          IF id \in DOMAIN taskDb
          THEN /\ taskDb'[id].userId = taskDb[id].userId
               /\ taskDb'[id] # taskDb[id] =>
                     \A r \in Stepping : Requester(r) = taskDb[id].userId
          ELSE \A r \in Stepping : Requester(r) = taskDb'[id].userId]_vars

====
